---- MODULE Spec2Model ----
(***************************************************************************)
(* Stock ledger, dispense recorder and alert engine of the pharmacy        *)
(* inventory tracker (inventory/models.py, inventory/views.py,             *)
(* inventory/admin.py, inventory/management/commands/check_alerts.py).     *)
(*                                                                         *)
(* The three tables are sets of rows with an auto-increment primary key.   *)
(* Time is counted in whole days; timezone.now() and timezone.now().date() *)
(* are both the variable now.                                              *)
(***************************************************************************)
EXTENDS Integers, Sequences, FiniteSets, TLC

\* ------------------------------------------------------------------ bounds
\* Rows ever inserted into the MedicineInventory table: where alerts are
\* scanned or rows deleted, and where stock is only received and dispensed.
MaxEntries == 2
MaxStockEntries == 4
\* The same where the clean-up of old alerts is followed.
MaxSweepEntries == 1
\* The same where low stock is followed.
MaxLowStockEntries == 3
\* The same where the outcomes of quick dispenses are followed.
MaxDispenseEntries == 3
\* The same where files are imported, and the rows of such a file.
MaxImportEntries == 2
MaxFileRows == 2
\* The same where the mail of the scan is followed.
MaxNotifyEntries == 2
\* The same where the near-expiry window is followed.
MaxNearExpiryEntries == 2
\* The same where manual dispenses are followed.
MaxManualEntries == 2
\* The same where quick dispenses of expired stock are followed.
MaxExpiredEntries == 3

\* ------------------------------------------------------- program constants
\* null=True columns (an integer, so that it compares with ids and days).
NULL == -1
\* MedicineInventory.minimum_stock_level default.
DefaultMinimumStockLevel == 10
\* getattr(settings, 'EXPIRY_ALERT_DAYS', 30)
EXPIRY_ALERT_DAYS == 30
\* timedelta(days=30) of the clean-up of old acknowledged alerts.
RetentionDays == 30

\* ------------------------------------------------------------ input domains
Medicines == {"Amoxicillin", "Ibuprofen"}
Batches == {"B1", "B2"}
Users == {"alice", "bob"}
NoUser == "none"
Patients == {"J.Doe"}
Quantities == {5, 10}
\* The (medicine name, batch number) keys of the ledger.
Keys == Medicines \X Batches
\* The days on which handlers run: the clock starts at day 0 and advances to
\* the next of these.
Days == {0, 1, 30}
\* The same where the clean-up is followed: at day 31 an acknowledgment of
\* day 0 is 31 days old, one of day 1 is 30 and one of day 2 is 29.
SweepDays == {0, 1, 2, 31}

VARIABLES
    ledger,     \* MedicineInventory rows
    history,    \* DispenseHistory rows
    alerts,     \* StockAlert rows
    nextId,     \* next primary key of each table
    now,        \* the clock, in days
    response,   \* what the last handler reported (flash message, stdout, mail)
    pc,         \* concurrent handlers: position of each
    req,        \* concurrent handlers: the request each serves
    loc         \* concurrent handlers: local variables of each

vars == <<ledger, history, alerts, nextId, now, response, pc, req, loc>>

\* ------------------------------------------------------------------ models

\* A filter that forgets the batch number (a variant the balance claim rules out).
FilterMedicineOnly(rows, medicine_name, batch_no) ==
    {r \in rows : r.medicine_name = medicine_name}

\* MedicineInventory.objects.filter(medicine_name=..., batch_no=...)
FilterKey(rows, medicine_name, batch_no) ==
    {r \in rows : r.medicine_name = medicine_name /\ r.batch_no = batch_no}

RECURSIVE SumRows(_, _)
SumRows(rows, f) ==
    IF rows = {} THEN 0
    ELSE LET r == CHOOSE x \in rows : TRUE
         IN r[f] + SumRows(rows \ {r}, f)

\* .aggregate(total=models.Sum(f))['total'] : SQL SUM is NULL over no rows.
AggregateSum(rows, f) == IF rows = {} THEN NULL ELSE SumRows(rows, f)

\* Python's `x or 0`.
OrZero(x) == IF x = NULL \/ x = 0 THEN 0 ELSE x

\* A balance that stops at zero (a variant the claim on negative balances
\* rules out).
BalanceFloored(rows, medicine_name, batch_no) ==
    LET total_in == OrZero(AggregateSum(FilterKey(rows, medicine_name, batch_no), "quantity_in"))
        total_out == OrZero(AggregateSum(FilterKey(rows, medicine_name, batch_no), "quantity_out"))
    IN IF total_in < total_out THEN 0 ELSE total_in - total_out

Balance(rows, medicine_name, batch_no) ==
    LET total_in == OrZero(AggregateSum(FilterKey(rows, medicine_name, batch_no), "quantity_in"))
        total_out == OrZero(AggregateSum(FilterKey(rows, medicine_name, batch_no), "quantity_out"))
    IN total_in - total_out

\* MedicineInventory.balance(self), on the table `rows`.
balance(rows, self) == Balance(rows, self.medicine_name, self.batch_no)

\* An expiry that starts the day after the expiry date (a variant the claim
\* on the days to expiry rules out).
is_expired_day_after(self, today) == self.expiry_date < today

is_expired(self, today) == self.expiry_date <= today

days_to_expiry(self, today) == self.expiry_date - today

\* Low stock that counts a balance equal to the minimum level (a variant the
\* low-stock claim rules out).
is_low_or_at_level(rows, self) == balance(rows, self) <= self.minimum_stock_level

is_low_stock(rows, self) == balance(rows, self) < self.minimum_stock_level

\* ------------------------------------------------------------------- rows

\* A MedicineInventory row (the columns the ledger and the alerts read).
InventoryRow(id, medicine_name, batch_no, expiry_date, quantity_in, quantity_out, dispensed_to, minimum_stock_level) ==
    [id |-> id, medicine_name |-> medicine_name,
     batch_no |-> batch_no, expiry_date |-> expiry_date,
     quantity_in |-> quantity_in, quantity_out |-> quantity_out,
     dispensed_to |-> dispensed_to,
     minimum_stock_level |-> minimum_stock_level]

\* A DispenseHistory row; inventory_record is the foreign key, or NULL.
HistoryRow(id, medicine_name, batch_no, dispensed_to, quantity_out, inventory_record) ==
    [id |-> id, medicine_name |-> medicine_name, batch_no |-> batch_no,
     dispensed_to |-> dispensed_to, quantity_out |-> quantity_out,
     inventory_record |-> inventory_record]

\* A StockAlert row as get_or_create inserts it.
AlertRow(id, medicine_name, alert_type, message) ==
    [id |-> id, medicine_name |-> medicine_name, alert_type |-> alert_type,
     message |-> message, is_acknowledged |-> FALSE,
     acknowledged_by |-> NoUser, acknowledged_at |-> NULL]

\* What a handler reports: flash message or stdout, counts, mail.
Resp(op, result) ==
    [op |-> op, result |-> result, created |-> 0, deleted |-> 0,
     email |-> "none", mailed |-> {}]

\* --------------------------------------------------------------- the forms

\* MedicineInventoryForm.clean_expiry_date (and MedicineInventory.clean).
clean_expiry_date(expiry_date, today) == expiry_date > today

\* Cross-field rules without the one on the recipient (a variant the
\* validation claim rules out).
clean_quantities_only(quantity_in, quantity_out, dispensed_to) ==
    /\ ~(quantity_in = 0 /\ quantity_out = 0)
    /\ ~(quantity_in > 0 /\ quantity_out > 0)

\* MedicineInventoryForm.clean: the cross-field rules.
clean(quantity_in, quantity_out, dispensed_to) ==
    /\ ~(quantity_in = 0 /\ quantity_out = 0)
    /\ ~(quantity_in > 0 /\ quantity_out > 0)
    /\ ~(quantity_out > 0 /\ dispensed_to = "")

\* MedicineInventoryForm.is_valid()
InventoryFormValid(today, expiry_date, quantity_in, quantity_out, dispensed_to, minimum_stock_level) ==
    /\ quantity_in >= 0
    /\ quantity_out >= 0
    /\ minimum_stock_level >= 1
    /\ clean_expiry_date(expiry_date, today)
    /\ clean(quantity_in, quantity_out, dispensed_to)

\* A form whose patient name is optional (a variant the order-of-checks
\* claim rules out).
QuickDispenseFormOptionalPatient(medicine_name, batch_no, quantity, patient_name) ==
    /\ medicine_name # ""
    /\ batch_no # ""
    /\ quantity >= 1

\* QuickDispenseForm.is_valid()
QuickDispenseFormValid(medicine_name, batch_no, quantity, patient_name) ==
    /\ medicine_name # ""
    /\ batch_no # ""
    /\ quantity >= 1
    /\ patient_name # ""

\* ------------------------------------------------------------ get_or_create

AlertsFor(al, medicine_name, alert_type) ==
    {a \in al : a.medicine_name = medicine_name /\ a.alert_type = alert_type}

\* A lookup that sees only unacknowledged alerts (a variant the
\* acknowledged-stays-acknowledged claim rules out).
AlertLookupOpenOnly(al, medicine_name, alert_type) ==
    {a \in AlertsFor(al, medicine_name, alert_type) : ~a.is_acknowledged}

\* StockAlert.objects.get(medicine_name=..., alert_type=...): the rows it matches.
AlertLookup(al, medicine_name, alert_type) == AlertsFor(al, medicine_name, alert_type)

\* An update_or_create in place of get_or_create: the row found gets the new
\* message (a variant the existing-alerts-untouched claim rules out).
UpdateOrCreate(al, next, medicine_name, alert_type, message) ==
    LET found == AlertsFor(al, medicine_name, alert_type)
    IN IF found = {}
       THEN [alerts |-> al \cup {AlertRow(next, medicine_name, alert_type, message)},
             next |-> next + 1, created |-> TRUE, raised |-> FALSE]
       ELSE [alerts |-> {IF a \in found THEN [a EXCEPT !.message = message] ELSE a : a \in al},
             next |-> next, created |-> FALSE, raised |-> FALSE]

\* A plain create in place of get_or_create (a variant the one-alert-per-pair
\* claim rules out).
CreateAlways(al, next, medicine_name, alert_type, message) ==
    [alerts |-> al \cup {AlertRow(next, medicine_name, alert_type, message)},
     next |-> next + 1, created |-> TRUE, raised |-> FALSE]

\* A get_or_create that replaces an acknowledged row it finds by a new
\* unacknowledged one (a variant the claim on re-surfacing rules out).
GetOrCreateReopening(al, next, medicine_name, alert_type, message) ==
    LET found == AlertsFor(al, medicine_name, alert_type)
    IN IF found = {} \/ \E a \in found : a.is_acknowledged
       THEN [alerts |-> (al \ found) \cup {AlertRow(next, medicine_name, alert_type, message)},
             next |-> next + 1, created |-> TRUE, raised |-> FALSE]
       ELSE [alerts |-> al, next |-> next, created |-> FALSE, raised |-> FALSE]

\* StockAlert.objects.get_or_create(medicine_name=..., alert_type=...,
\* defaults={'message': ...}) on table al with next primary key next:
\* one match is returned, none is created, several raise
\* MultipleObjectsReturned.
GetOrCreate(al, next, medicine_name, alert_type, message) ==
    LET found == AlertLookup(al, medicine_name, alert_type)
    IN IF Cardinality(found) = 1
       THEN [alerts |-> al, next |-> next, created |-> FALSE, raised |-> FALSE]
       ELSE IF found = {}
       THEN [alerts |-> al \cup {AlertRow(next, medicine_name, alert_type, message)},
             next |-> next + 1, created |-> TRUE, raised |-> FALSE]
       ELSE [alerts |-> al, next |-> next, created |-> FALSE, raised |-> TRUE]

\* ------------------------------------------------------------ the alert scan

\* The orders a queryset of MedicineInventory may come in. Meta.ordering is
\* ['-date'], and date is a free field of the entry form (rows of one date
\* come in the order the database chooses): every order of the rows is the
\* '-date' order for some choice of dates.
Orderings(rows) ==
    LET n == Cardinality(rows)
    IN {s \in [1..n -> rows] : \A i, j \in 1..n : i # j => s[i] # s[j]}

\* The message of an alert of kind alert_type raised for item.
AlertMessage(alert_type, rows, item, today) ==
    CASE alert_type = "expired" -> <<"has expired on", item.batch_no, item.expiry_date>>
      [] alert_type = "near_expiry" -> <<"expires in days", item.batch_no, days_to_expiry(item, today)>>
      [] alert_type = "low_stock" -> <<"Low stock alert, current balance", "", balance(rows, item)>>

\* A scan for which a batch expires only the day after its expiry date (a
\* variant the expired-alert claim rules out).
QualifiesDayLate(alert_type, rows, item, today) ==
    CASE alert_type = "expired" -> item.expiry_date < today
      [] alert_type = "near_expiry" ->
            item.expiry_date > today /\ item.expiry_date <= today + EXPIRY_ALERT_DAYS
      [] alert_type = "low_stock" -> is_low_stock(rows, item)

\* A near-expiry window that ends the day before the threshold (a variant
\* the near-expiry claim rules out).
QualifiesBeforeThreshold(alert_type, rows, item, today) ==
    CASE alert_type = "expired" -> item.expiry_date <= today
      [] alert_type = "near_expiry" ->
            item.expiry_date > today /\ item.expiry_date < today + EXPIRY_ALERT_DAYS
      [] alert_type = "low_stock" -> is_low_stock(rows, item)

\* Whether the loop of kind alert_type raises an alert for item.
Qualifies(alert_type, rows, item, today) ==
    CASE alert_type = "expired" -> item.expiry_date <= today
      [] alert_type = "near_expiry" ->
            item.expiry_date > today /\ item.expiry_date <= today + EXPIRY_ALERT_DAYS
      [] alert_type = "low_stock" -> is_low_stock(rows, item)

\* A loop body that counts every alert it meets as created (a variant the
\* idempotence claim rules out).
ScanItemCountsAll(alert_type, rows, item, st, today) ==
    IF ~Qualifies(alert_type, rows, item, today) THEN st
    ELSE LET r == GetOrCreate(st.alerts, st.next, item.medicine_name, alert_type,
                              AlertMessage(alert_type, rows, item, today))
         IN [alerts |-> r.alerts, next |-> r.next,
             created |-> st.created + 1,
             raised |-> r.raised]

\* The body of a `for item in ...` loop of Command.handle for one item, on
\* scan state st = [alerts, next, created, raised].
ScanItem(alert_type, rows, item, st, today) ==
    IF ~Qualifies(alert_type, rows, item, today) THEN st
    ELSE LET r == GetOrCreate(st.alerts, st.next, item.medicine_name, alert_type,
                              AlertMessage(alert_type, rows, item, today))
         IN [alerts |-> r.alerts, next |-> r.next,
             created |-> st.created + (IF r.created THEN 1 ELSE 0),
             raised |-> r.raised]

\* One `for item in ...` loop of Command.handle over items[i..]; an exception
\* of get_or_create ends the command. (The state after an item is bound as a
\* value before the loop goes on.)
RECURSIVE ScanLoop(_, _, _, _, _, _)
ScanLoop(alert_type, rows, items, i, st, today) ==
    IF i > Len(items) \/ st.raised THEN st
    ELSE CHOOSE r \in {ScanLoop(alert_type, rows, items, i + 1, x, today) :
                        x \in {ScanItem(alert_type, rows, items[i], st, today)}} : TRUE

\* The three loops of Command.handle (lines 37-84) with the rows in order
\* items: the table of alerts, the next key, alerts_created and whether
\* get_or_create raised.
ScanAlerts(rows, items, al, next, today) ==
    CHOOSE r \in
        {ScanLoop("low_stock", rows, items, 1, s2, today) :
            s2 \in {ScanLoop("near_expiry", rows, items, 1, s1, today) :
                s1 \in {ScanLoop("expired", rows, items, 1, s0, today) :
                    s0 \in {[alerts |-> al, next |-> next, created |-> 0,
                             raised |-> FALSE]}}}} : TRUE

\* What the three loops may leave, over the orders the rows may come in.
ScanOutcomes(rows, al, next, today) ==
    {ScanAlerts(rows, items, al, next, today) : items \in Orderings(rows)}

\* A clean-up with a strict comparison (a variant the retention claim rules out).
OldAlertsStrict(al, t) ==
    {a \in al : /\ a.is_acknowledged
                /\ a.acknowledged_at # NULL
                /\ a.acknowledged_at < t - RetentionDays}

\* The alerts the clean-up of Command.handle (lines 91-97) deletes.
OldAlerts(al, t) ==
    {a \in al : /\ a.is_acknowledged
                /\ a.acknowledged_at # NULL
                /\ a.acknowledged_at <= t - RetentionDays}

\* The alerts send_alert_emails lists.
CriticalAlerts(al) ==
    {a \in al : ~a.is_acknowledged /\ a.alert_type \in {"expired", "low_stock"}}

\* ------------------------------------------------- handlers, one at a time

Procs == {1, 2}

\* A request: its handler and the fields of its form.
Request(op, medicine_name, batch_no, quantity_in, quantity_out, dispensed_to) ==
    [op |-> op, medicine_name |-> medicine_name, batch_no |-> batch_no,
     quantity_in |-> quantity_in, quantity_out |-> quantity_out,
     dispensed_to |-> dispensed_to]

NoRequest == Request("none", "", "", 0, 0, "")

\* The local variables of a handler: the row it read (inventory_item, item,
\* inventory), the rows it inserted (NULL: none), the queryset it iterates
\* and its position in it, the loop of the scan it is in, alerts_created,
\* and how it ended.
NoLocals ==
    [item |-> InventoryRow(NULL, "", "", NULL, 0, 0, "", 0),
     inserted |-> NULL, audit |-> NULL, items |-> <<>>, i |-> 0,
     loop |-> 0, message |-> <<>>, created |-> 0, result |-> "none"]

Init ==
    /\ ledger = {}
    /\ history = {}
    /\ alerts = {}
    /\ nextId = [inventory |-> 1, history |-> 1, alert |-> 1]
    /\ now = 0
    /\ response = Resp("none", "ok")
    /\ pc = [p \in Procs |-> "off"]
    /\ req = [p \in Procs |-> NoRequest]
    /\ loc = [p \in Procs |-> NoLocals]

\* views.add_inventory, POST. (Whether the form submitted is kept in req is
\* said where the action is used.)
AddInventory(medicine_name, batch_no, expiry_date, quantity_in, quantity_out, dispensed_to, minimum_stock_level) ==
    IF ~InventoryFormValid(now, expiry_date, quantity_in, quantity_out,
                           dispensed_to, minimum_stock_level)
    THEN /\ response' = Resp("add_inventory", "invalid")
         /\ UNCHANGED <<ledger, history, alerts, nextId, now, pc, loc>>
    ELSE /\ LET inventory == InventoryRow(nextId.inventory, medicine_name, batch_no,
                                          expiry_date, quantity_in, quantity_out,
                                          dispensed_to, minimum_stock_level)
                rows == ledger \cup {inventory}
                dispensing == inventory.quantity_out > 0
                goc == IF is_low_stock(rows, inventory)
                       THEN GetOrCreate(alerts, nextId.alert, medicine_name, "low_stock",
                                        <<"Stock is running low", "", NULL>>)
                       ELSE [alerts |-> alerts, next |-> nextId.alert,
                             created |-> FALSE, raised |-> FALSE]
            IN /\ ledger' = rows
               /\ history' = IF dispensing
                             THEN history \cup {HistoryRow(nextId.history, medicine_name,
                                                           batch_no, dispensed_to,
                                                           quantity_out, inventory.id)}
                             ELSE history
               /\ alerts' = goc.alerts
               /\ nextId' = [inventory |-> nextId.inventory + 1,
                             history |-> IF dispensing THEN nextId.history + 1
                                         ELSE nextId.history,
                             alert |-> goc.next]
               /\ response' = Resp("add_inventory",
                                   IF goc.raised THEN "error"
                                   ELSE IF dispensing THEN "dispensed" ELSE "added")
         /\ UNCHANGED <<now, pc, loc>>

\* A first() over the whole table (a variant the not-found claim rules out).
FirstOfLedger(rows, medicine_name, batch_no) == rows

\* A first() over the batches of the medicine (a variant the claim on the
\* entry a quick dispense adds rules out).
FirstOfMedicine(rows, medicine_name, batch_no) ==
    {r \in rows : r.medicine_name = medicine_name}

\* .filter(medicine_name=..., batch_no=...).first(): the rows it may return,
\* the first of an ordering of the rows of the key.
FirstOfKey(rows, medicine_name, batch_no) ==
    {s[1] : s \in {o \in Orderings(FilterKey(rows, medicine_name, batch_no)) : Len(o) > 0}}

\* A stock check that only asks for some stock (a variant the
\* no-over-dispense claim rules out).
AnyStock(rows, inventory_item, quantity) ==
    balance(rows, inventory_item) > 0

\* A stock check that also refuses a source entry that has expired (a
\* variant the claim on dispensing expired stock rules out).
SufficientUnexpiredStock(rows, inventory_item, quantity) ==
    /\ ~(balance(rows, inventory_item) < quantity)
    /\ inventory_item.expiry_date > now

\* Whether quick_dispense lets a request for quantity pass its stock check.
SufficientStock(rows, inventory_item, quantity) ==
    ~(balance(rows, inventory_item) < quantity)

\* The DispenseHistory row quick_dispense inserts (no inventory_record).
QuickDispenseHistory(id, medicine_name, batch_no, patient_name, quantity) ==
    HistoryRow(id, medicine_name, batch_no, patient_name, quantity, NULL)

\* views.quick_dispense, POST, both inserts succeeding.
QuickDispense(medicine_name, batch_no, quantity, patient_name) ==
    /\ UNCHANGED <<alerts, now, pc, loc>>
    /\ IF ~QuickDispenseFormValid(medicine_name, batch_no, quantity, patient_name)
       THEN /\ response' = Resp("quick_dispense", "invalid")
            /\ UNCHANGED <<ledger, history, nextId>>
       ELSE IF FirstOfKey(ledger, medicine_name, batch_no) = {}
       THEN /\ response' = Resp("quick_dispense", "not_found")
            /\ UNCHANGED <<ledger, history, nextId>>
       ELSE \E inventory_item \in FirstOfKey(ledger, medicine_name, batch_no) :
              IF ~SufficientStock(ledger, inventory_item, quantity)
              THEN /\ response' = Resp("quick_dispense", "insufficient_stock")
                   /\ UNCHANGED <<ledger, history, nextId>>
              ELSE /\ ledger' = ledger \cup
                        {InventoryRow(nextId.inventory, medicine_name, batch_no,
                                      inventory_item.expiry_date, 0, quantity,
                                      patient_name, DefaultMinimumStockLevel)}
                   /\ history' = history \cup
                        {QuickDispenseHistory(nextId.history, medicine_name, batch_no,
                                              patient_name, quantity)}
                   /\ nextId' = [nextId EXCEPT !.inventory = @ + 1, !.history = @ + 1]
                   /\ response' = Resp("quick_dispense", "dispensed")

\* views.delete_inventory, POST: the row goes, and with it (on_delete=CASCADE)
\* the DispenseHistory rows that reference it.
DeleteInventory(pk) ==
    /\ \E item \in ledger : item.id = pk
    /\ ledger' = {r \in ledger : r.id # pk}
    /\ history' = {h \in history : h.inventory_record # pk}
    /\ response' = Resp("delete_inventory", "deleted")
    /\ UNCHANGED <<alerts, nextId, now, pc, req, loc>>

\* An acknowledgment that sets the flag and the user but no timestamp (a
\* variant the claim on acknowledgment timestamps rules out).
AcknowledgeRowUndated(alert, user, t) ==
    [alert EXCEPT !.is_acknowledged = TRUE,
                  !.acknowledged_by = user]

\* alert.is_acknowledged = True; alert.acknowledged_by = request.user;
\* alert.acknowledged_at = timezone.now()
AcknowledgeRow(alert, user, t) ==
    [alert EXCEPT !.is_acknowledged = TRUE,
                  !.acknowledged_by = user,
                  !.acknowledged_at = t]

\* views.stock_alerts, POST with action=acknowledge.
Acknowledge(alert_id, user) ==
    /\ UNCHANGED <<ledger, history, nextId, now, pc, req, loc>>
    /\ IF \E a \in alerts : a.id = alert_id
       THEN /\ alerts' = {IF a.id = alert_id THEN AcknowledgeRow(a, user, now) ELSE a :
                            a \in alerts}
            /\ response' = Resp("acknowledge", "acknowledged")
       ELSE /\ alerts' = alerts
            /\ response' = Resp("acknowledge", "404")

\* StockAlertAdmin.mark_acknowledged on the selected rows.
MarkAcknowledged(queryset, user) ==
    /\ queryset # {}
    /\ queryset \subseteq alerts
    /\ alerts' = {IF a \in queryset THEN AcknowledgeRow(a, user, now) ELSE a :
                    a \in alerts}
    /\ response' = Resp("mark_acknowledged", "marked")
    /\ UNCHANGED <<ledger, history, nextId, now, pc, req, loc>>

\* A send_alert_emails that lets the exception of send_mail through (a
\* variant the claim on delivery failures rules out).
send_alert_emails_raising(al, delivery) ==
    LET critical_alerts == CriticalAlerts(al)
    IN IF critical_alerts = {}
       THEN [email |-> "none", mailed |-> {}, raised |-> FALSE]
       ELSE [email |-> delivery,
             mailed |-> IF delivery = "sent" THEN {a.id : a \in critical_alerts} ELSE {},
             raised |-> delivery = "failed"]

\* Command.send_alert_emails on the table al, the mail server answering
\* delivery: nothing without critical alerts, else one mail that lists them;
\* an exception of send_mail is caught and reported.
send_alert_emails(al, delivery) ==
    LET critical_alerts == CriticalAlerts(al)
    IN IF critical_alerts = {}
       THEN [email |-> "none", mailed |-> {}, raised |-> FALSE]
       ELSE [email |-> delivery,
             mailed |-> IF delivery = "sent" THEN {a.id : a \in critical_alerts} ELSE {},
             raised |-> FALSE]

\* The check_alerts command (Command.handle) with options send_email and
\* clean_old_alerts, its three loops leaving sc (one of ScanOutcomes), the
\* mail server answering delivery. (Whether the options are kept in req is
\* said where the action is used.)
CheckAlerts(send_email, clean_old_alerts, sc, delivery) ==
    LET mail == IF send_email /\ sc.created > 0
                THEN send_alert_emails(sc.alerts, delivery)
                ELSE [email |-> "none", mailed |-> {}, raised |-> FALSE]
        old == IF clean_old_alerts THEN OldAlerts(sc.alerts, now) ELSE {}
    IN /\ nextId' = [nextId EXCEPT !.alert = sc.next]
       /\ UNCHANGED <<ledger, history, now, pc, loc>>
       /\ IF sc.raised \/ mail.raised
          THEN /\ alerts' = sc.alerts
               /\ response' = [Resp("check_alerts", "error") EXCEPT !.created = sc.created,
                                                                    !.email = mail.email]
          ELSE /\ alerts' = sc.alerts \ old
               /\ response' =
                    [op |-> "check_alerts",
                     result |-> IF clean_old_alerts THEN "cleaned" ELSE "completed",
                     created |-> sc.created,
                     deleted |-> Cardinality(old),
                     email |-> mail.email,
                     mailed |-> mail.mailed]

\* A row of an imported file, as parsed: expiry_date NULL stands for a cell
\* that is empty or not a date.
FileRow(medicine_name, batch_no, expiry_date, quantity_in, quantity_out, dispensed_to) ==
    [medicine_name |-> medicine_name, batch_no |-> batch_no,
     expiry_date |-> expiry_date, quantity_in |-> quantity_in,
     quantity_out |-> quantity_out, dispensed_to |-> dispensed_to]

\* import_csv, lines 59-156: the rows of the file that become records, with
\* their keys starting at next; a row without medicine_name is skipped, an
\* expiry date that is missing becomes one year from today.
RECURSIVE medicines_to_create(_, _, _)
medicines_to_create(file, next, today) ==
    IF file = <<>> THEN {}
    ELSE LET row == Head(file)
         IN IF row.medicine_name = ""
            THEN medicines_to_create(Tail(file), next, today)
            ELSE {InventoryRow(next, row.medicine_name, row.batch_no,
                               IF row.expiry_date = NULL THEN today + 365
                               ELSE row.expiry_date,
                               row.quantity_in, row.quantity_out, row.dispensed_to,
                               DefaultMinimumStockLevel)}
                 \cup medicines_to_create(Tail(file), next + 1, today)

\* The import_csv command (Command.handle) on a file, confirmed at the
\* prompt: bulk_create of the records, or nothing on a dry run.
ImportCsv(file, dry_run) ==
    LET records == medicines_to_create(file, nextId.inventory, now)
    IN /\ UNCHANGED <<history, alerts, now, pc, req, loc>>
       /\ IF dry_run \/ records = {}
          THEN /\ UNCHANGED <<ledger, nextId>>
               /\ response' = Resp("import_csv", IF dry_run THEN "dry_run" ELSE "nothing")
          ELSE /\ ledger' = ledger \cup records
               /\ nextId' = [nextId EXCEPT !.inventory = @ + Cardinality(records)]
               /\ response' = Resp("import_csv", "imported")

\* import_ods, import_data (lines 188-262), over the rows of the file: a row
\* without medicine_name or without a valid expiry date is skipped, the
\* others are saved one by one, with a DispenseHistory row when the row
\* dispenses to someone. st = [ledger, history, next].
RECURSIVE import_data(_, _)
import_data(file, st) ==
    IF file = <<>> THEN st
    ELSE LET row == Head(file)
         IN IF row.medicine_name = "" \/ row.expiry_date = NULL
            THEN import_data(Tail(file), st)
            ELSE LET medicine == InventoryRow(st.next.inventory, row.medicine_name,
                                              row.batch_no, row.expiry_date,
                                              row.quantity_in, row.quantity_out,
                                              row.dispensed_to, DefaultMinimumStockLevel)
                     audited == medicine.quantity_out > 0 /\ medicine.dispensed_to # ""
                 IN import_data(Tail(file),
                      [ledger |-> st.ledger \cup {medicine},
                       history |-> IF audited
                                   THEN st.history \cup
                                        {HistoryRow(st.next.history, medicine.medicine_name,
                                                    medicine.batch_no, medicine.dispensed_to,
                                                    medicine.quantity_out, medicine.id)}
                                   ELSE st.history,
                       next |-> [st.next EXCEPT !.inventory = @ + 1,
                                                !.history = IF audited THEN @ + 1 ELSE @]])

\* The import_ods command on a file, or its preview on a dry run; with
\* clear_existing the two tables are emptied first.
ImportOds(file, dry_run, clear_existing) ==
    LET st == import_data(file, [ledger |-> IF clear_existing THEN {} ELSE ledger,
                                 history |-> IF clear_existing THEN {} ELSE history,
                                 next |-> nextId])
    IN /\ UNCHANGED <<alerts, now, pc, req, loc>>
       /\ IF dry_run
          THEN /\ UNCHANGED <<ledger, history, nextId>>
               /\ response' = Resp("import_ods", "dry_run")
          ELSE /\ ledger' = st.ledger
               /\ history' = st.history
               /\ nextId' = st.next
               /\ response' = Resp("import_ods", "imported")

\* Time passes, to the next of the days on which handlers run.
Tick(days) ==
    /\ \E d \in days : d > now
    /\ now' = CHOOSE d \in days : d > now /\ \A e \in days : e > now => d <= e
    /\ response' = Resp("tick", "ok")
    /\ UNCHANGED <<ledger, history, alerts, nextId, pc, req, loc>>

\* ---------------------------------------------- handlers, two at a time
\* Each of two workers serves one request, query by query: a step is one
\* statement of the database (autocommit: no handler opens a transaction).

\* The store two concurrent requests find: a receipt of Amoxicillin B1 made
\* on day 0 that expires on day 1, and the clock at day 1.
InitRace ==
    /\ \E q \in Quantities :
         ledger = {InventoryRow(1, "Amoxicillin", "B1", 1, q, 0, "",
                                DefaultMinimumStockLevel)}
    /\ history = {}
    /\ alerts = {}
    /\ nextId = [inventory |-> 2, history |-> 1, alert |-> 1]
    /\ now = 1
    /\ response = Resp("tick", "ok")
    /\ pc = [p \in Procs |-> "idle"]
    /\ req = [p \in Procs |-> NoRequest]
    /\ loc = [p \in Procs |-> NoLocals]

Finish(p, result) ==
    /\ pc' = [pc EXCEPT ![p] = "done"]
    /\ loc' = [loc EXCEPT ![p].result = result]

Goto(p, label) == pc' = [pc EXCEPT ![p] = label]

\* A worker takes a request; the form is validated first.
Start(p, r) ==
    /\ pc[p] = "idle"
    /\ req' = [req EXCEPT ![p] = r]
    /\ UNCHANGED <<ledger, history, alerts, nextId, now, response>>
    /\ CASE r.op = "quick_dispense" ->
              IF QuickDispenseFormValid(r.medicine_name, r.batch_no, r.quantity_out,
                                        r.dispensed_to)
              THEN Goto(p, "qd_first") /\ UNCHANGED loc
              ELSE Finish(p, "invalid")
         [] r.op = "add_inventory" ->
              IF InventoryFormValid(now, now + 1, r.quantity_in, r.quantity_out,
                                    r.dispensed_to, DefaultMinimumStockLevel)
              THEN Goto(p, "ai_save") /\ UNCHANGED loc
              ELSE Finish(p, "invalid")
         [] r.op = "check_alerts" ->
              /\ pc' = [pc EXCEPT ![p] = "scan_query"]
              /\ loc' = [loc EXCEPT ![p].loop = 1]

\* quick_dispense, lines 261-268: the .first() query.
QdFirst(p) ==
    /\ pc[p] = "qd_first"
    /\ UNCHANGED <<ledger, history, alerts, nextId, now, response, req>>
    /\ IF FirstOfKey(ledger, req[p].medicine_name, req[p].batch_no) = {}
       THEN Finish(p, "not_found")
       ELSE \E inventory_item \in FirstOfKey(ledger, req[p].medicine_name, req[p].batch_no) :
              /\ Goto(p, "qd_balance")
              /\ loc' = [loc EXCEPT ![p].item = inventory_item]

\* quick_dispense, lines 270-272: the balance query and the stock check.
QdBalance(p) ==
    /\ pc[p] = "qd_balance"
    /\ UNCHANGED <<ledger, history, alerts, nextId, now, response, req>>
    /\ IF SufficientStock(ledger, loc[p].item, req[p].quantity_out)
       THEN Goto(p, "qd_insert") /\ UNCHANGED loc
       ELSE Finish(p, "insufficient_stock")

\* quick_dispense, lines 275-286: the insert of the dispense entry; a
\* failing statement raises, and `except Exception` reports it.
QdInsert(p, fails) ==
    /\ pc[p] = "qd_insert"
    /\ UNCHANGED <<history, alerts, now, response, req>>
    /\ IF fails
       THEN Finish(p, "error") /\ UNCHANGED <<ledger, nextId>>
       ELSE /\ ledger' = ledger \cup
                  {InventoryRow(nextId.inventory, req[p].medicine_name, req[p].batch_no,
                                loc[p].item.expiry_date, 0, req[p].quantity_out,
                                req[p].dispensed_to, DefaultMinimumStockLevel)}
            /\ nextId' = [nextId EXCEPT !.inventory = @ + 1]
            /\ pc' = [pc EXCEPT ![p] = "qd_history"]
            /\ loc' = [loc EXCEPT ![p].inserted = nextId.inventory]

\* quick_dispense, lines 289-303: the insert of the DispenseHistory row.
QdHistory(p, fails) ==
    /\ pc[p] = "qd_history"
    /\ UNCHANGED <<ledger, alerts, now, response, req>>
    /\ IF fails
       THEN Finish(p, "error") /\ UNCHANGED <<history, nextId>>
       ELSE /\ history' = history \cup
                  {QuickDispenseHistory(nextId.history, req[p].medicine_name,
                                        req[p].batch_no, req[p].dispensed_to,
                                        req[p].quantity_out)}
            /\ nextId' = [nextId EXCEPT !.history = @ + 1]
            /\ pc' = [pc EXCEPT ![p] = "done"]
            /\ loc' = [loc EXCEPT ![p].audit = nextId.history, ![p].result = "dispensed"]

\* add_inventory, lines 101-103: form.save().
AiSave(p) ==
    /\ pc[p] = "ai_save"
    /\ UNCHANGED <<history, alerts, now, response, req>>
    /\ LET inventory == InventoryRow(nextId.inventory, req[p].medicine_name,
                                     req[p].batch_no, now + 1, req[p].quantity_in,
                                     req[p].quantity_out, req[p].dispensed_to,
                                     DefaultMinimumStockLevel)
       IN /\ ledger' = ledger \cup {inventory}
          /\ nextId' = [nextId EXCEPT !.inventory = @ + 1]
          /\ loc' = [loc EXCEPT ![p].item = inventory, ![p].inserted = inventory.id]
          /\ Goto(p, IF inventory.quantity_out > 0 THEN "ai_history" ELSE "ai_low")

\* add_inventory, lines 105-115: the DispenseHistory row of a dispense.
AiHistory(p) ==
    /\ pc[p] = "ai_history"
    /\ UNCHANGED <<ledger, alerts, now, response, req>>
    /\ history' = history \cup
          {HistoryRow(nextId.history, req[p].medicine_name, req[p].batch_no,
                      req[p].dispensed_to, req[p].quantity_out, loc[p].inserted)}
    /\ nextId' = [nextId EXCEPT !.history = @ + 1]
    /\ loc' = [loc EXCEPT ![p].audit = nextId.history]
    /\ Goto(p, "ai_low")

\* add_inventory, lines 120-121: inventory.is_low_stock().
AiLow(p) ==
    /\ pc[p] = "ai_low"
    /\ UNCHANGED <<ledger, history, alerts, nextId, now, response, req>>
    /\ IF is_low_stock(ledger, loc[p].item)
       THEN /\ Goto(p, "goc_get")
            /\ loc' = [loc EXCEPT ![p].message = <<"Stock is running low", "", NULL>>]
       ELSE Finish(p, IF req[p].quantity_out > 0 THEN "dispensed" ELSE "added")

\* The loops of Command.handle, in the order of the code.
ScanKinds == <<"expired", "near_expiry", "low_stock">>

\* The alert_type of the get_or_create a worker is in.
GocKind(p) == IF req[p].op = "check_alerts" THEN ScanKinds[loc[p].loop] ELSE "low_stock"

\* check_alerts, lines 37-40, 56-59, 73: the query of a loop. The date
\* filters are part of the query; is_low_stock is asked per item.
ScanQuery(p) ==
    /\ pc[p] = "scan_query"
    /\ UNCHANGED <<ledger, history, alerts, nextId, now, response, req>>
    /\ \E items \in Orderings(IF ScanKinds[loc[p].loop] = "low_stock" THEN ledger
                               ELSE {r \in ledger :
                                       Qualifies(ScanKinds[loc[p].loop], ledger, r, now)}) :
         loc' = [loc EXCEPT ![p].items = items, ![p].i = 1]
    /\ Goto(p, "scan_item")

\* check_alerts: the head of a loop body, up to the call of get_or_create.
ScanNext(p) ==
    /\ pc[p] = "scan_item"
    /\ UNCHANGED <<ledger, history, alerts, nextId, now, response, req>>
    /\ IF loc[p].i > Len(loc[p].items)
       THEN IF loc[p].loop < Len(ScanKinds)
            THEN /\ loc' = [loc EXCEPT ![p].loop = @ + 1]
                 /\ Goto(p, "scan_query")
            ELSE Finish(p, "completed")
       ELSE LET item == loc[p].items[loc[p].i]
            IN IF GocKind(p) = "low_stock" /\ ~is_low_stock(ledger, item)
               THEN loc' = [loc EXCEPT ![p].i = @ + 1] /\ UNCHANGED pc
               ELSE /\ loc' = [loc EXCEPT ![p].item = item,
                                          ![p].message = AlertMessage(GocKind(p), ledger, item, now)]
                    /\ Goto(p, "goc_get")

\* Where a worker goes on after get_or_create returned.
GocReturn(p, created) ==
    IF req[p].op = "check_alerts"
    THEN /\ loc' = [loc EXCEPT ![p].i = @ + 1, ![p].created = @ + created]
         /\ Goto(p, "scan_item")
    ELSE /\ loc' = [loc EXCEPT ![p].created = @ + created,
                               ![p].result = IF req[p].quantity_out > 0 THEN "dispensed"
                                             ELSE "added"]
         /\ Goto(p, "done")

\* get_or_create, its SELECT: self.get(**kwargs).
GocGet(p) ==
    /\ pc[p] = "goc_get"
    /\ UNCHANGED <<ledger, history, alerts, nextId, now, response, req>>
    /\ LET found == AlertLookup(alerts, loc[p].item.medicine_name, GocKind(p))
       IN IF found = {} THEN Goto(p, "goc_create") /\ UNCHANGED loc
          ELSE IF Cardinality(found) = 1 THEN GocReturn(p, 0)
          ELSE Finish(p, "error")

\* get_or_create, its INSERT after DoesNotExist: self.create(**params).
\* StockAlert declares no unique constraint, so the insert cannot fail with
\* IntegrityError.
GocCreate(p) ==
    /\ pc[p] = "goc_create"
    /\ UNCHANGED <<ledger, history, now, response, req>>
    /\ alerts' = alerts \cup {AlertRow(nextId.alert, loc[p].item.medicine_name,
                                       GocKind(p), loc[p].message)}
    /\ nextId' = [nextId EXCEPT !.alert = @ + 1]
    /\ GocReturn(p, 1)

\* The requests two workers are given.
RaceRequests ==
    {Request("quick_dispense", "Amoxicillin", "B1", 0, q, "J.Doe") : q \in Quantities \cup {0}}
    \cup {Request("add_inventory", "Amoxicillin", "B1", 0, 5, "J.Doe"),
          Request("check_alerts", "", "", 0, 0, "")}

NextRace ==
    \E p \in Procs :
        \/ \E r \in RaceRequests : Start(p, r)
        \/ QdFirst(p)
        \/ QdBalance(p)
        \/ \E fails \in BOOLEAN : QdInsert(p, fails)
        \/ \E fails \in BOOLEAN : QdHistory(p, fails)
        \/ AiSave(p)
        \/ AiHistory(p)
        \/ AiLow(p)
        \/ ScanQuery(p)
        \/ ScanNext(p)
        \/ GocGet(p)
        \/ GocCreate(p)

SpecRace == InitRace /\ [][NextRace]_vars

\* Manual entries: receipts and dispenses, valid and invalid.
ManualEntries(meds, batches, offsets, levels) ==
    \E m \in meds, b \in batches, off \in offsets,
       qin \in Quantities \cup {0}, qout \in Quantities \cup {0},
       to \in Patients \cup {""}, lvl \in levels :
        /\ qin > 0 => to = ""
        /\ AddInventory(m, b, now + off, qin, qout, to, lvl)
        /\ UNCHANGED req

\* Receipts only.
Receipts(meds, batches, offsets, quantities, levels) ==
    \E m \in meds, b \in batches, off \in offsets, qin \in quantities, lvl \in levels :
        AddInventory(m, b, now + off, qin, 0, "", lvl) /\ UNCHANGED req

QuickDispenses(meds, batches) ==
    \E m \in meds, b \in batches, q \in Quantities \cup {0}, to \in Patients :
        QuickDispense(m, b, q, to) /\ UNCHANGED req

\* The form a handler was given, kept as the request of worker 1.
Submitted(r) == req' = [req EXCEPT ![1] = r]

\* Manual entries whose form is kept.
SubmittedEntries(meds, batches, offsets, quantities, recipients, levels) ==
    \E m \in meds, b \in batches, off \in offsets, qin \in quantities,
       qout \in quantities, to \in recipients, lvl \in levels :
        /\ AddInventory(m, b, now + off, qin, qout, to, lvl)
        /\ Submitted(Request("add_inventory", m, b, qin, qout, to))

\* Quick dispenses whose form is kept.
SubmittedDispenses(meds, batches, quantities, recipients) ==
    \E m \in meds, b \in batches, q \in quantities, to \in recipients :
        /\ QuickDispense(m, b, q, to)
        /\ Submitted(Request("quick_dispense", m, b, 0, q, to))

Deletes == \E item \in ledger : DeleteInventory(item.id)

\* No more than max rows are ever inserted into the ledger.
Within(max) == nextId'.inventory <= max + 1

Scans(mails, cleans) ==
    \E sc \in ScanOutcomes(ledger, alerts, nextId.alert, now) :
        \E send_email \in mails, clean_old_alerts \in cleans,
           delivery \in {"sent", "failed"} :
            /\ ~send_email => delivery = "sent"
            /\ CheckAlerts(send_email, clean_old_alerts, sc, delivery)
            /\ UNCHANGED req

\* The options of a check_alerts command.
Options(send_email, clean_old_alerts) ==
    [op |-> "check_alerts", send_email |-> send_email, clean_old_alerts |-> clean_old_alerts]

\* Scans whose options are kept.
SubmittedScans(mails, cleans) ==
    \E sc \in ScanOutcomes(ledger, alerts, nextId.alert, now) :
        \E send_email \in mails, clean_old_alerts \in cleans,
           delivery \in {"sent", "failed"} :
            /\ ~send_email => delivery = "sent"
            /\ CheckAlerts(send_email, clean_old_alerts, sc, delivery)
            /\ Submitted(Options(send_email, clean_old_alerts))

Acknowledgments(users) ==
    \/ \E a \in alerts, u \in users : Acknowledge(a.id, u)
    \/ \E u \in users : Acknowledge(nextId.alert, u)
    \/ \E q \in SUBSET alerts, u \in users : MarkAcknowledged(q, u)

\* The alert engine: manual receipts of 5 (one is low in stock at the minimum
\* level of 10, two are not), scans with and without the clean-up,
\* acknowledgments, the clock.
NextAlerts ==
    \/ /\ Receipts({"Amoxicillin"}, {"B1"}, {1, 31}, {5}, {DefaultMinimumStockLevel})
       /\ Within(MaxEntries)
    \/ Scans({FALSE}, BOOLEAN)
    \/ Acknowledgments({"alice"})
    \/ Tick(Days)

SpecAlerts == Init /\ [][NextAlerts]_vars

\* The clean-up of old alerts: one kind of receipt (low in stock at once, near
\* its expiry, then expired), scans with and without the clean-up,
\* acknowledgments by two users, a clock of four days.
NextSweep ==
    \/ /\ Receipts({"Amoxicillin"}, {"B1"}, {1}, {5}, {DefaultMinimumStockLevel})
       /\ Within(MaxSweepEntries)
    \/ Scans({FALSE}, BOOLEAN)
    \/ Acknowledgments(Users)
    \/ Tick(SweepDays)

SpecSweep == Init /\ [][NextSweep]_vars

\* Low stock: receipts of 10 and 100 with the default minimum level of 10,
\* quick dispenses of 90 and 95 (leaving 10, which is not low, or 5, which
\* is), and scans.
NextLowStock ==
    \/ /\ Receipts(Medicines, {"B1"}, {31}, {10, 100}, {DefaultMinimumStockLevel})
       /\ Within(MaxLowStockEntries)
    \/ SubmittedDispenses(Medicines, {"B1"}, {90, 95}, Patients) /\ Within(MaxLowStockEntries)
    \/ Scans({FALSE}, {FALSE})

SpecLowStock == Init /\ [][NextLowStock]_vars

\* Quick dispenses and what they answer: receipts of 10 in two batches with
\* two expiry dates, quick dispenses of 0, 5 and 10 with and without a
\* patient name, for a medicine that is received and one that never is.
NextDispense ==
    \/ /\ Receipts({"Amoxicillin"}, Batches, {1, 31}, {10}, {DefaultMinimumStockLevel})
       /\ Within(MaxDispenseEntries)
    \/ /\ SubmittedDispenses(Medicines, Batches, Quantities \cup {0}, Patients \cup {""})
       /\ Within(MaxDispenseEntries)

SpecDispense == Init /\ [][NextDispense]_vars

\* Manual entries and what the form answers: every combination of quantity
\* received and dispensed in {0, 5}, with and without a recipient, with an
\* expiry date of today or tomorrow.
NextEntry ==
    /\ SubmittedEntries({"Amoxicillin"}, Batches, {0, 1}, {0, 5}, Patients \cup {""},
                        {DefaultMinimumStockLevel})
    /\ Within(MaxEntries)

SpecEntry == Init /\ [][NextEntry]_vars

\* The files that are imported: up to MaxFileRows rows of one medicine and
\* batch: a receipt that expires today, tomorrow or without a date, a
\* dispense, a row with both quantities zero, one with both positive, and a
\* row without a medicine name.
ImportFiles ==
    LET rows == {FileRow("Amoxicillin", "B1", now, 5, 0, ""),
                 FileRow("Amoxicillin", "B1", now + 1, 5, 0, ""),
                 FileRow("Amoxicillin", "B1", NULL, 5, 0, ""),
                 FileRow("Amoxicillin", "B1", now + 1, 0, 5, "J.Doe"),
                 FileRow("Amoxicillin", "B1", now + 1, 0, 0, ""),
                 FileRow("Amoxicillin", "B1", now + 1, 5, 5, "J.Doe"),
                 FileRow("", "B1", now + 1, 5, 0, "")}
    IN UNION {[1..n -> rows] : n \in 1..MaxFileRows}

\* Every creation path of ledger entries: manual entries, quick dispenses,
\* the two imports, and the clock.
NextImport ==
    \/ /\ ManualEntries({"Amoxicillin"}, {"B1"}, {0, 1}, {DefaultMinimumStockLevel})
       /\ Within(MaxImportEntries)
    \/ QuickDispenses({"Amoxicillin"}, {"B1"}) /\ Within(MaxImportEntries)
    \/ \E file \in ImportFiles, dry_run \in BOOLEAN :
          ImportCsv(file, dry_run) /\ Within(MaxImportEntries)
    \/ \E file \in ImportFiles, dry_run \in BOOLEAN, clear_existing \in BOOLEAN :
          ImportOds(file, dry_run, clear_existing) /\ Within(MaxImportEntries)
    \/ Tick({0, 1})

SpecImport == Init /\ [][NextImport]_vars

\* The mail of the scan: receipts that are low in stock or not and expire
\* the next day, commands run with --send-email, with and without the
\* clean-up, the mail server delivering or failing, acknowledgments, and a
\* clock of day 0 and day 31.
NextNotify ==
    \/ /\ Receipts({"Amoxicillin"}, {"B1"}, {1}, {5, 100}, {DefaultMinimumStockLevel})
       /\ Within(MaxNotifyEntries)
    \/ SubmittedScans({TRUE}, BOOLEAN)
    \/ Acknowledgments({"alice"})
    \/ Tick({0, 31})

SpecNotify == Init /\ [][NextNotify]_vars

\* The near-expiry window: receipts of two medicines, well in stock, that
\* expire 1 or 31 days after they are entered, scans on day 0 and day 1 (an
\* entry of day 0 is then at 0 or 30 days of its expiry, one of day 1 at 1 or
\* 31 days).
NextNearExpiry ==
    \/ /\ Receipts(Medicines, {"B1"}, {1, 31}, {100}, {DefaultMinimumStockLevel})
       /\ Within(MaxNearExpiryEntries)
    \/ Scans({FALSE}, {FALSE})
    \/ Tick({0, 1})

SpecNearExpiry == Init /\ [][NextNearExpiry]_vars

\* Manual dispenses: entries of one medicine in two batches that receive or
\* dispense 5 or 10, with and without a recipient, all with an expiry date
\* of the next day, so that the form decides on the quantities and the
\* recipient alone.
NextManual ==
    /\ SubmittedEntries({"Amoxicillin"}, Batches, {1}, Quantities \cup {0}, Patients \cup {""},
                        {DefaultMinimumStockLevel})
    /\ Within(MaxManualEntries)

SpecManual == Init /\ [][NextManual]_vars

\* Quick dispenses of stock that expires: receipts of 10 of one batch that
\* expire the next day, quick dispenses of 5 and 10, and a clock of three
\* days.
NextExpired ==
    \/ /\ Receipts({"Amoxicillin"}, {"B1"}, {1}, {10}, {DefaultMinimumStockLevel})
       /\ Within(MaxExpiredEntries)
    \/ /\ SubmittedDispenses({"Amoxicillin"}, {"B1"}, Quantities, Patients \cup {""})
       /\ Within(MaxExpiredEntries)
    \/ Tick({0, 1, 2})

SpecExpired == Init /\ [][NextExpired]_vars

\* The ledger: manual entries, quick dispenses and deletions over four keys.
Next ==
    \/ ManualEntries(Medicines, Batches, {0, 1}, {DefaultMinimumStockLevel}) /\ Within(MaxEntries)
    \/ QuickDispenses(Medicines, Batches) /\ Within(MaxEntries)
    \/ Deletes

Spec == Init /\ [][Next]_vars

\* Stock that is only received and quick-dispensed, over two batches.
NextStock ==
    \/ /\ Receipts({"Amoxicillin"}, Batches, {1}, Quantities, {DefaultMinimumStockLevel})
       /\ Within(MaxStockEntries)
    \/ QuickDispenses({"Amoxicillin"}, Batches) /\ Within(MaxStockEntries)

SpecStock == Init /\ [][NextStock]_vars

\* ------------------------------------------------------------ properties

\* C1 (SpecStock): with quick dispenses served one at a time, a quick dispense
\* that succeeds asked for no more than the balance of its key had, so after
\* any sequence of receipts and quick dispenses no key has a negative balance.
C1_QuickDispenseWithinBalance ==
    [][ /\ \A r \in ledger' \ ledger :
             r.quantity_out > 0 =>
                r.quantity_out <= Balance(ledger, r.medicine_name, r.batch_no)
        /\ (response'.op = "quick_dispense" /\ response'.result = "dispensed") =>
             \E r \in ledger' \ ledger : r.quantity_out > 0
        /\ \A k \in Keys : Balance(ledger', k[1], k[2]) >= 0 ]_vars

\* A quick dispense was refused for want of stock after an earlier one had
\* taken a batch down to nothing.
C1_Witness ==
    /\ response.op = "quick_dispense"
    /\ response.result = "insufficient_stock"
    /\ \E r \in ledger : /\ r.quantity_out > 0
                         /\ Balance(ledger, r.medicine_name, r.batch_no) = 0
    /\ \E r \in ledger : Balance(ledger, r.medicine_name, r.batch_no) > 0

\* C4 (Spec): for every key and every ledger, balance is the quantity received
\* minus the quantity dispensed, added up entry by entry over the entries of
\* that medicine name and batch number and no others, and 0 when the key has
\* no entry.
C4_BalanceIsNetOfKey ==
    \A k \in Keys :
        LET last == nextId.inventory - 1
            net[n \in 0..last] ==
                IF n = 0 THEN 0
                ELSE net[n - 1] +
                     (IF \E r \in ledger : r.id = n /\ r.medicine_name = k[1]
                                           /\ r.batch_no = k[2]
                      THEN LET e == CHOOSE r \in ledger : r.id = n
                           IN e.quantity_in - e.quantity_out
                      ELSE 0)
        IN /\ Balance(ledger, k[1], k[2]) = net[last]
           /\ (~\E r \in ledger : r.medicine_name = k[1] /\ r.batch_no = k[2])
                 => Balance(ledger, k[1], k[2]) = 0
           /\ \A r \in ledger :
                 (r.medicine_name = k[1] /\ r.batch_no = k[2])
                    => balance(ledger, r) = net[last]

\* A key with a receipt and a dispense next to an entry of the same medicine
\* in another batch.
C4_Witness ==
    \E r1, r2 \in ledger :
        /\ r1.medicine_name = r2.medicine_name
        /\ r1.batch_no # r2.batch_no
        /\ r1.quantity_in > 0
        /\ r2.quantity_out > 0
        /\ Balance(ledger, r1.medicine_name, r1.batch_no) = r1.quantity_in
        /\ Balance(ledger, r2.medicine_name, r2.batch_no) = 0 - r2.quantity_out

\* C5 (SpecAlerts): from an empty alert table, scans, manual entries,
\* acknowledgments and clean-ups run one at a time leave at most one alert row
\* per (medicine name, alert kind), acknowledged or not.
C5_OneAlertPerPair ==
    \A a1, a2 \in alerts :
        (a1.medicine_name = a2.medicine_name /\ a1.alert_type = a2.alert_type)
            => a1 = a2

\* A scan met conditions whose alerts already existed, one of them
\* acknowledged, and created nothing.
C5_Witness ==
    /\ response.op = "check_alerts"
    /\ response.created = 0
    /\ Cardinality(alerts) >= 2
    /\ \E a \in alerts : a.is_acknowledged
    /\ \E a \in alerts : ~a.is_acknowledged
    /\ Cardinality(ledger) >= 2

\* C7 (SpecAlerts): a scan that comes right after a scan, with the ledger, the
\* alerts and the date as the first run left them, creates no alert and leaves
\* the table of alerts as it was.
C7_SecondScanCreatesNothing ==
    [][ (/\ response.op = "check_alerts"
         /\ response.result = "completed"
         /\ response'.op = "check_alerts")
        => /\ response'.created = 0
           /\ response'.result # "error"
           /\ response'.result = "completed" => alerts' = alerts ]_vars

\* After a scan created nothing although expired and low stock were there to
\* be detected.
C7_Witness ==
    /\ response.op = "check_alerts"
    /\ response.result = "completed"
    /\ response.created = 0
    /\ \E r \in ledger : Qualifies("expired", ledger, r, now)
    /\ \E r \in ledger : Qualifies("low_stock", ledger, r, now)
    /\ \E a \in alerts : a.alert_type = "expired" /\ ~a.is_acknowledged
    /\ \E a \in alerts : a.alert_type = "low_stock"

\* C8 (SpecAlerts): an acknowledged alert stays acknowledged for as long as
\* its row exists, and no step (a scan that detects the condition again
\* included) adds another alert for its (medicine, kind) pair.
C8_AcknowledgedStays ==
    [][ \A a \in alerts :
          a.is_acknowledged =>
            /\ \A b \in alerts' : b.id = a.id => b.is_acknowledged
            /\ \A b \in alerts' :
                 (b.medicine_name = a.medicine_name /\ b.alert_type = a.alert_type)
                    => \E c \in alerts : c.id = b.id ]_vars

\* A scan has just run over an expired batch whose alert was acknowledged.
C8_Witness ==
    /\ response.op = "check_alerts"
    /\ \E a \in alerts :
         /\ a.is_acknowledged
         /\ a.alert_type = "expired"
         /\ \E r \in ledger : /\ r.medicine_name = a.medicine_name
                              /\ Qualifies("expired", ledger, r, now)

\* C9 (SpecSweep): acknowledging an alert that is already acknowledged changes
\* nothing: flag, principal and timestamp keep the values of the first
\* acknowledgment.
C9_ReacknowledgeChangesNothing ==
    [][ \A a \in alerts :
          a.is_acknowledged =>
            \A b \in alerts' :
              b.id = a.id => /\ b.is_acknowledged
                             /\ b.acknowledged_by = a.acknowledged_by
                             /\ b.acknowledged_at = a.acknowledged_at ]_vars

\* C10 (SpecSweep): the clean-up deletes exactly the alerts that are
\* acknowledged with a timestamp of at most now minus 30 days, and reports
\* their number; an alert that is not acknowledged is deleted by no step.
C10_SweepDeletesExactlyOld ==
    [][ /\ (response'.op = "check_alerts" /\ response'.result = "cleaned") =>
             /\ \A a \in alerts :
                  a \in alerts' <=>
                    ~(a.is_acknowledged /\ a.acknowledged_at <= now - 30)
             /\ response'.deleted =
                  Cardinality({a \in alerts : a.is_acknowledged
                                              /\ a.acknowledged_at <= now - 30})
        /\ \A a \in alerts :
             ~a.is_acknowledged => \E b \in alerts' : b.id = a.id ]_vars

\* On day 31 a clean-up deleted the alerts acknowledged on day 0 and day 1
\* (31 and 30 days old) and kept the one acknowledged on day 2 (29 days old).
C10_Witness ==
    /\ now = 31
    /\ response.op = "check_alerts"
    /\ response.result = "cleaned"
    /\ response.deleted = 2
    /\ \E a \in alerts : a.is_acknowledged /\ a.acknowledged_at = 2

\* C2 (SpecRace): two quick dispenses served concurrently never take the
\* balance of their key below zero.
C2_ConcurrentNoOverDispense ==
    (\A p \in Procs : req[p].op = "quick_dispense")
        => \A k \in Keys : Balance(ledger, k[1], k[2]) >= 0

\* C3 (SpecRace): when a quick dispense has ended, with success or with an
\* error, its ledger entry exists if and only if its DispenseHistory row
\* exists.
C3_LedgerAndAuditTogether ==
    \A p \in Procs :
        (req[p].op = "quick_dispense" /\ pc[p] = "done")
            => ((\E r \in ledger : r.id = loc[p].inserted)
                    <=> (\E h \in history : h.id = loc[p].audit))

\* C6 (SpecRace): when two creators of alerts have run concurrently and both
\* have ended, each (medicine name, alert kind) pair has at most one row.
C6_RaceLeavesOneAlert ==
    (\A p \in Procs : pc[p] = "done")
        => \A a1, a2 \in alerts :
              (a1.medicine_name = a2.medicine_name /\ a1.alert_type = a2.alert_type)
                  => a1.id = a2.id

\* C11 (SpecAlerts), as the code has it: after a scan without the clean-up,
\* every ledger entry whose expiry date is on or before the current date has
\* exactly one alert of kind expired for its medicine name, acknowledged or
\* not.
C11_ExpiredHasOneAlert ==
    (response.op = "check_alerts" /\ response.result = "completed")
        => \A r \in ledger :
              r.expiry_date <= now =>
                Cardinality({a \in alerts : /\ a.medicine_name = r.medicine_name
                                            /\ a.alert_type = "expired"}) = 1

\* C11 as stated: after a scan, every ledger entry whose expiry date is on or
\* before the current date has exactly one unacknowledged alert of kind
\* expired for its medicine name.
C11_ExpiredHasOneOpenAlert ==
    (response.op = "check_alerts" /\ response.result = "completed")
        => \A r \in ledger :
              r.expiry_date <= now =>
                Cardinality({a \in alerts : /\ a.medicine_name = r.medicine_name
                                            /\ a.alert_type = "expired"
                                            /\ ~a.is_acknowledged}) = 1

\* A scan has just created the expired alert of a batch that expires today.
C11_Witness ==
    /\ response.op = "check_alerts"
    /\ response.result = "completed"
    /\ response.created > 0
    /\ \E r \in ledger : r.expiry_date = now
    /\ \E a \in alerts : /\ a.alert_type = "expired"
                         /\ ~a.is_acknowledged
                         /\ a.message[3] = now

\* C13 (SpecAlerts): the count a scan reports is the number of alert rows it
\* inserted, and every alert row that was there before the scan is, if still
\* there, the same row: message, flag, principal and timestamp. Without the
\* clean-up the table grows by exactly that count and loses no row.
C13_CountIsInsertedRows ==
    [][ response'.op = "check_alerts" =>
          /\ response'.created =
               Cardinality({b \in alerts' : \A a \in alerts : a.id # b.id})
          /\ \A a \in alerts : \A b \in alerts' : b.id = a.id => b = a
          /\ response'.result = "completed" =>
               /\ alerts \subseteq alerts'
               /\ Cardinality(alerts') - Cardinality(alerts) = response'.created ]_vars

\* A scan created two alerts next to one that was acknowledged before it.
C13_Witness ==
    /\ response.op = "check_alerts"
    /\ response.result = "completed"
    /\ response.created = 2
    /\ Cardinality(alerts) = 3
    /\ \E a \in alerts : a.is_acknowledged

\* C12 (SpecLowStock): a scan gives a medicine that has no low-stock alert
\* one such alert, unacknowledged, exactly when some ledger entry of that
\* medicine has a balance of its key strictly below the entry's own minimum
\* stock level; a balance equal to the level brings none.
C12_LowStockAlertWhenBelowLevel ==
    [][ (response'.op = "check_alerts" /\ response'.result = "completed") =>
          \A m \in Medicines :
            (~\E a \in alerts : a.medicine_name = m /\ a.alert_type = "low_stock") =>
              LET new == {b \in alerts' : b.medicine_name = m /\ b.alert_type = "low_stock"}
                  low == \E r \in ledger :
                            /\ r.medicine_name = m
                            /\ Balance(ledger, m, r.batch_no) < r.minimum_stock_level
              IN /\ low => Cardinality(new) = 1 /\ \A b \in new : ~b.is_acknowledged
                 /\ ~low => new = {} ]_vars

\* After a receipt of 100 with minimum level 10 and a dispense of 95, a scan
\* created the low-stock alert of the medicine at a balance of 5, while the
\* other medicine, at a balance of 10, has none.
C12_Witness ==
    /\ response.op = "check_alerts"
    /\ response.created = 1
    /\ \E r1, r2 \in ledger :
         /\ r1.medicine_name = r2.medicine_name
         /\ r1.quantity_in = 100 /\ r1.minimum_stock_level = 10
         /\ r2.quantity_out = 95
         /\ Balance(ledger, r1.medicine_name, r1.batch_no) = 5
         /\ \E a \in alerts : /\ a.medicine_name = r1.medicine_name
                              /\ a.alert_type = "low_stock"
                              /\ a.message[3] = 5
    /\ \E r \in ledger :
         /\ Balance(ledger, r.medicine_name, r.batch_no) = r.minimum_stock_level
         /\ ~\E a \in alerts : a.medicine_name = r.medicine_name

\* C14 (SpecDispense): a quick dispense with a valid form fails with
\* not_found when its key has no ledger entry and with insufficient_stock
\* when the balance of its key is below the quantity asked for, in no other
\* case, and a quick dispense that fails so adds no ledger entry, no
\* DispenseHistory row and no alert, so that every balance keeps its value.
C14_FailedDispenseChangesNothing ==
    [][ response'.op = "quick_dispense" =>
          LET r == req'[1]
              entries == {e \in ledger : e.medicine_name = r.medicine_name
                                         /\ e.batch_no = r.batch_no}
              valid == r.quantity_out >= 1 /\ r.dispensed_to # ""
          IN /\ response'.result = "not_found" <=> (valid /\ entries = {})
             /\ response'.result = "insufficient_stock" <=>
                  (/\ valid
                   /\ entries # {}
                   /\ Balance(ledger, r.medicine_name, r.batch_no) < r.quantity_out)
             /\ response'.result \in {"not_found", "insufficient_stock"} =>
                  /\ ledger' = ledger
                  /\ history' = history
                  /\ alerts' = alerts
                  /\ \A k \in Keys : Balance(ledger', k[1], k[2]) = Balance(ledger, k[1], k[2])
        ]_vars

\* A quick dispense of 10 was refused at a balance of 5, which is still 5.
C14_Witness ==
    /\ response.op = "quick_dispense"
    /\ response.result = "insufficient_stock"
    /\ req[1].quantity_out = 10
    /\ Balance(ledger, req[1].medicine_name, req[1].batch_no) = 5
    /\ Cardinality(history) = 1

\* C19 (SpecDispense): a quick dispense of q that succeeds adds exactly one
\* ledger entry, of its key, with quantity_out = q, quantity_in = 0 and the
\* expiry date of an entry the key had; the balance of the key goes down by q
\* and no other balance changes.
C19_DispenseAddsOneEntry ==
    [][ (response'.op = "quick_dispense" /\ response'.result = "dispensed") =>
          LET r == req'[1]
          IN /\ Cardinality(ledger' \ ledger) = 1
             /\ ledger \subseteq ledger'
             /\ \A e \in ledger' \ ledger :
                  /\ e.medicine_name = r.medicine_name
                  /\ e.batch_no = r.batch_no
                  /\ e.quantity_out = r.quantity_out
                  /\ e.quantity_in = 0
                  /\ \A old \in ledger : old.id # e.id
                  /\ \E source \in ledger :
                       /\ source.medicine_name = r.medicine_name
                       /\ source.batch_no = r.batch_no
                       /\ source.expiry_date = e.expiry_date
             /\ \A k \in Keys :
                  Balance(ledger', k[1], k[2]) =
                    Balance(ledger, k[1], k[2])
                      - (IF k = <<r.medicine_name, r.batch_no>> THEN r.quantity_out ELSE 0)
        ]_vars

\* A quick dispense of 5 has taken one batch from 10 to 5 while the other
\* batch, of another expiry date, is still at 10.
C19_Witness ==
    /\ response.op = "quick_dispense"
    /\ response.result = "dispensed"
    /\ req[1].quantity_out = 5
    /\ Balance(ledger, req[1].medicine_name, req[1].batch_no) = 5
    /\ \E e \in ledger :
         /\ e.medicine_name = req[1].medicine_name
         /\ e.batch_no # req[1].batch_no
         /\ Balance(ledger, e.medicine_name, e.batch_no) = 10
         /\ \A d \in ledger : d.batch_no = req[1].batch_no => d.expiry_date # e.expiry_date

\* C20 (SpecDispense): a quick dispense answers by the first of its
\* preconditions that fails, in the order quantity >= 1 and patient name
\* given (the form), an entry of the key exists, the balance covers the
\* quantity: invalid, then not_found, then insufficient_stock, and dispensed
\* when all hold.
C20_FirstFailedPrecondition ==
    [][ response'.op = "quick_dispense" =>
          LET r == req'[1]
              entries == {e \in ledger : e.medicine_name = r.medicine_name
                                         /\ e.batch_no = r.batch_no}
          IN response'.result =
               IF r.quantity_out < 1 \/ r.dispensed_to = "" THEN "invalid"
               ELSE IF entries = {} THEN "not_found"
               ELSE IF Balance(ledger, r.medicine_name, r.batch_no) < r.quantity_out
               THEN "insufficient_stock"
               ELSE "dispensed" ]_vars

\* A quick dispense of quantity 0 without a patient name on a key that has no
\* entry was answered as invalid, next to a ledger that has other entries.
C20_Witness ==
    /\ response.op = "quick_dispense"
    /\ response.result = "invalid"
    /\ req[1].quantity_out = 0
    /\ req[1].dispensed_to = ""
    /\ ledger # {}
    /\ \A e \in ledger : ~(e.medicine_name = req[1].medicine_name
                           /\ e.batch_no = req[1].batch_no)

\* C16 (SpecEntry): a manual entry whose quantity received and quantity
\* dispensed are both zero, or both positive, or whose quantity dispensed is
\* positive with an empty recipient, is answered as invalid, and an entry
\* answered as invalid adds no ledger entry, no DispenseHistory row and no
\* alert.
C16_InvalidEntryPersistsNothing ==
    [][ response'.op = "add_inventory" =>
          LET r == req'[1]
              rejected == \/ r.quantity_in = 0 /\ r.quantity_out = 0
                          \/ r.quantity_in > 0 /\ r.quantity_out > 0
                          \/ r.quantity_out > 0 /\ r.dispensed_to = ""
          IN /\ rejected => response'.result = "invalid"
             /\ response'.result = "invalid" =>
                  /\ ledger' = ledger
                  /\ history' = history
                  /\ alerts' = alerts
                  /\ nextId' = nextId ]_vars

\* A dispense without a recipient was answered as invalid, next to a ledger
\* that holds a receipt and a dispense entered before.
C16_Witness ==
    /\ response.op = "add_inventory"
    /\ response.result = "invalid"
    /\ req[1].quantity_in = 0
    /\ req[1].quantity_out > 0
    /\ req[1].dispensed_to = ""
    /\ Cardinality(ledger) = 2
    /\ Cardinality(history) = 1
    /\ alerts # {}

\* C18 (Spec): every step that adds a dispense entry to the ledger (a quick
\* dispense, or a manual entry with quantity_out > 0) adds exactly one
\* DispenseHistory row, and that row references the entry.
C18_DispenseHasItsAudit ==
    [][ \A e \in ledger' \ ledger :
          e.quantity_out > 0 =>
            /\ Cardinality(history' \ history) = 1
            /\ \A h \in history' \ history : h.inventory_record = e.id ]_vars

\* C15 (SpecImport): every stored ledger entry, whichever way it was created
\* (manual entry, quick dispense, CSV import, ODS import), has exactly one of
\* quantity_in and quantity_out nonzero.
C15_ReceiptOrDispense ==
    \A e \in ledger :
        \/ e.quantity_in > 0 /\ e.quantity_out = 0
        \/ e.quantity_in = 0 /\ e.quantity_out > 0

\* C17 (SpecImport): every ledger entry, whichever way it was created, has at
\* the moment it is saved an expiry date strictly after the current date.
C17_ExpiryAfterSaving ==
    [][ \A e \in ledger' \ ledger : e.expiry_date > now ]_vars

\* C21 (SpecSweep), as the code has it: from every state, with the rows in
\* any one order, the scan followed by the clean-up and the clean-up followed
\* by the scan leave the same alerts (primary keys apart) for every
\* (medicine, kind) pair that has no acknowledged alert of 30 days or more;
\* where a pair has one, the scan followed by the clean-up leaves the pair no
\* alert, and the clean-up followed by the scan leaves it one new
\* unacknowledged alert if its condition holds and none if not.
C21_OrdersDifferOnlyWherePurged ==
    \A items \in Orderings(ledger) :
        LET scanned == ScanAlerts(ledger, items, alerts, nextId.alert, now).alerts
            scan_sweep == scanned \ OldAlerts(scanned, now)
            swept == alerts \ OldAlerts(alerts, now)
            sweep_scan == ScanAlerts(ledger, items, swept, nextId.alert, now).alerts
        IN \A m \in Medicines, k \in {"expired", "near_expiry", "low_stock"} :
             LET of(al) == {[a EXCEPT !.id = 0] : a \in AlertsFor(al, m, k)}
                 purged == \E a \in AlertsFor(alerts, m, k) :
                              a.is_acknowledged /\ a.acknowledged_at <= now - 30
                 holds == \E r \in ledger :
                              r.medicine_name = m /\ Qualifies(k, ledger, r, now)
             IN IF purged
                THEN /\ of(scan_sweep) = {}
                     /\ holds => /\ Cardinality(of(sweep_scan)) = 1
                                 /\ \A a \in of(sweep_scan) : ~a.is_acknowledged
                     /\ ~holds => of(sweep_scan) = {}
                ELSE of(scan_sweep) = of(sweep_scan)

\* C21 as stated: from every state, the scan followed by the clean-up leaves
\* the same alert table (primary keys apart) as the clean-up followed by the
\* scan.
C21_ScanAndSweepCommute ==
    \A items \in Orderings(ledger) :
        LET scanned == ScanAlerts(ledger, items, alerts, nextId.alert, now).alerts
            scan_sweep == scanned \ OldAlerts(scanned, now)
            swept == alerts \ OldAlerts(alerts, now)
            sweep_scan == ScanAlerts(ledger, items, swept, nextId.alert, now).alerts
        IN {[a EXCEPT !.id = 0] : a \in scan_sweep}
             = {[a EXCEPT !.id = 0] : a \in sweep_scan}

\* On day 31 the batch is expired and low in stock; its low-stock alert was
\* acknowledged 30 days ago or more, another of its alerts on day 2, and a
\* third is not acknowledged.
C21_Witness ==
    /\ now = 31
    /\ \E r \in ledger : Qualifies("expired", ledger, r, now)
    /\ \E a \in alerts : a.is_acknowledged /\ a.acknowledged_at <= now - 30
                         /\ a.alert_type = "low_stock"
    /\ \E a \in alerts : a.is_acknowledged /\ a.acknowledged_at = 2
    /\ \E a \in alerts : ~a.is_acknowledged

\* C22 (SpecSweep): a scan creates no alert for a (medicine, kind) pair that
\* has an alert, acknowledged or not, however long the condition holds; once
\* the pair has no alert (the clean-up has deleted the acknowledged one), a
\* scan that meets the condition creates exactly one, unacknowledged.
C22_ResurfacesOnlyAfterPurge ==
    [][ (response'.op = "check_alerts" /\ response'.result # "error") =>
          \A m \in Medicines, k \in {"expired", "near_expiry", "low_stock"} :
            LET had == AlertsFor(alerts, m, k)
                new == {b \in AlertsFor(alerts', m, k) : \A a \in alerts : a.id # b.id}
                holds == \E r \in ledger :
                            r.medicine_name = m /\ Qualifies(k, ledger, r, now)
            IN /\ had # {} => new = {}
               /\ (had = {} /\ holds) =>
                    /\ Cardinality(new) = 1
                    /\ \A b \in new : ~b.is_acknowledged
               /\ (had = {} /\ ~holds) => new = {} ]_vars

\* A scan has created an alert again for a pair whose acknowledged alert a
\* clean-up had deleted: the one medicine has three pairs, so a fourth alert
\* row is a second one of its pair.
C22_Witness ==
    /\ response.op = "check_alerts"
    /\ response.created = 1
    /\ \E a \in alerts :
         /\ a.id >= 4
         /\ ~a.is_acknowledged
         /\ \E r \in ledger : /\ r.medicine_name = a.medicine_name
                              /\ Qualifies(a.alert_type, ledger, r, now)

\* C23 (SpecNotify): a command run with --send-email sends one mail
\* whenever an unacknowledged alert of kind expired or low_stock exists when
\* its scan ends, also when the scan created no alert, and the mail lists
\* every such alert.
C23_NotifiesWheneverCriticalOpen ==
    [][ (/\ response'.op = "check_alerts"
         /\ response'.result # "error"
         /\ req'[1].send_email
         /\ CriticalAlerts(alerts') # {})
        => /\ response'.email # "none"
           /\ response'.email = "sent" =>
                response'.mailed = {a.id : a \in CriticalAlerts(alerts')} ]_vars

\* C24 (SpecNotify): when the delivery of the mail fails, the failure is
\* reported and the command ends as it does without it: every alert its scan
\* created is in the table, the count reported is their number, the clean-up
\* runs if it was asked for (no acknowledged alert of 30 days or more is
\* left, and their number is reported), and the completion message follows.
C24_FailedMailKeepsAlerts ==
    [][ (response'.op = "check_alerts" /\ response'.email = "failed") =>
          LET new == {b \in alerts' : \A a \in alerts : a.id # b.id}
              old == {a \in alerts : a.is_acknowledged /\ a.acknowledged_at <= now - 30}
          IN /\ response'.result = IF req'[1].clean_old_alerts THEN "cleaned" ELSE "completed"
             /\ response'.created > 0
             /\ Cardinality(new) = response'.created
             /\ alerts' = (alerts \cup new) \ (IF req'[1].clean_old_alerts THEN old ELSE {})
             /\ response'.deleted = IF req'[1].clean_old_alerts THEN Cardinality(old) ELSE 0
        ]_vars

\* On day 31 a command run with --send-email and --clean-old-alerts created
\* the expired alert, failed to deliver its mail, and deleted the low-stock
\* alert acknowledged on day 0.
C24_Witness ==
    /\ now = 31
    /\ response.op = "check_alerts"
    /\ response.email = "failed"
    /\ response.result = "cleaned"
    /\ response.deleted = 1
    /\ response.created = 1
    /\ \E a \in alerts : a.alert_type = "expired" /\ ~a.is_acknowledged
    /\ ~\E a \in alerts : a.alert_type = "low_stock"

\* C25 (Spec): the deletion of a ledger entry that records a dispense (made
\* by a quick dispense or by a manual entry) deletes the DispenseHistory row
\* of that dispense, the one of its medicine, batch, recipient and quantity,
\* and no other DispenseHistory row.
C25_DeleteTakesAuditAlong ==
    [][ response'.op = "delete_inventory" =>
          \A e \in ledger \ ledger' :
            e.quantity_out > 0 =>
              /\ Cardinality(history \ history') = 1
              /\ \A h \in history \ history' :
                   /\ h.medicine_name = e.medicine_name
                   /\ h.batch_no = e.batch_no
                   /\ h.dispensed_to = e.dispensed_to
                   /\ h.quantity_out = e.quantity_out
              /\ history' \subseteq history ]_vars

\* C26 (SpecSweep), as the code has it: for every ledger entry and every
\* date, days_to_expiry is the expiry date minus the current date; is_expired
\* is true exactly when days_to_expiry is zero or negative, and
\* days_to_expiry is negative exactly when the expiry date is before the
\* current date: on the expiry date itself the entry is expired with
\* days_to_expiry = 0.
C26_ExpiredIsZeroOrNegativeDays ==
    \A r \in ledger :
        /\ days_to_expiry(r, now) = r.expiry_date - now
        /\ is_expired(r, now) <=> days_to_expiry(r, now) <= 0
        /\ days_to_expiry(r, now) < 0 <=> r.expiry_date < now
        /\ r.expiry_date = now => is_expired(r, now) /\ days_to_expiry(r, now) = 0

\* C26 as stated: for every ledger entry and every date, days_to_expiry is
\* negative whenever is_expired is true.
C26_ExpiredIsNegativeDays ==
    \A r \in ledger : is_expired(r, now) => days_to_expiry(r, now) < 0

\* Two days after an entry was created with an expiry date one day ahead, it
\* is expired with days_to_expiry = -1.
C26_Witness ==
    /\ now = 2
    /\ \E r \in ledger : /\ r.expiry_date = 1
                         /\ is_expired(r, now)
                         /\ days_to_expiry(r, now) = -1

\* C27 (SpecNearExpiry): a scan gives a medicine that has no near-expiry
\* alert one such alert, unacknowledged, exactly when some ledger entry of
\* the medicine has 0 < days_to_expiry <= 30; every entry that expires on
\* the current date or before has an expired alert of its medicine after the
\* scan, and no entry meets the conditions of both kinds.
C27_NearExpiryWithinThreshold ==
    [][ (response'.op = "check_alerts" /\ response'.result = "completed") =>
          /\ \A m \in Medicines :
               (AlertsFor(alerts, m, "near_expiry") = {}) =>
                 LET new == AlertsFor(alerts', m, "near_expiry")
                     near == \E r \in ledger :
                                /\ r.medicine_name = m
                                /\ 0 < r.expiry_date - now
                                /\ r.expiry_date - now <= 30
                 IN /\ near => Cardinality(new) = 1 /\ \A b \in new : ~b.is_acknowledged
                    /\ ~near => new = {}
          /\ \A r \in ledger :
               /\ r.expiry_date <= now => AlertsFor(alerts', r.medicine_name, "expired") # {}
               /\ ~(Qualifies("expired", ledger, r, now)
                    /\ Qualifies("near_expiry", ledger, r, now)) ]_vars

\* On day 1 a scan created two alerts: the expired alert of a medicine whose
\* entry expires that day, which has no near-expiry alert, and the
\* near-expiry alert of a medicine whose entry expires 30 days later, which
\* the scan of day 0, at 31 days, had not created.
C27_Witness ==
    /\ now = 1
    /\ response.op = "check_alerts"
    /\ response.created = 2
    /\ \E r1, r2 \in ledger :
         /\ r1.expiry_date = now
         /\ AlertsFor(alerts, r1.medicine_name, "expired") # {}
         /\ AlertsFor(alerts, r1.medicine_name, "near_expiry") = {}
         /\ r2.expiry_date = now + 30
         /\ \E a \in AlertsFor(alerts, r2.medicine_name, "near_expiry") : a.message[3] = 30
         /\ AlertsFor(alerts, r2.medicine_name, "expired") = {}

\* C28 (SpecManual): a manual entry that dispenses q > 0 to a recipient, with
\* a future expiry date, is accepted whatever the balance of its key: it
\* adds its entry and takes the balance of the key down by q, below zero when
\* q is more than the balance was (or the key had no receipt); the negative
\* balance is returned as it is, the entry is low in stock, and the medicine
\* has a low-stock alert when the handler ends.
C28_ManualDispenseIgnoresBalance ==
    [][ (/\ response'.op = "add_inventory"
         /\ req'[1].quantity_in = 0
         /\ req'[1].quantity_out > 0
         /\ req'[1].dispensed_to # "")
        => LET r == req'[1]
               was == Balance(ledger, r.medicine_name, r.batch_no)
           IN /\ response'.result = "dispensed"
              /\ Cardinality(ledger' \ ledger) = 1
              /\ \A e \in ledger' \ ledger :
                   /\ e.medicine_name = r.medicine_name
                   /\ e.batch_no = r.batch_no
                   /\ e.quantity_out = r.quantity_out
                   /\ balance(ledger', e) = was - r.quantity_out
                   /\ was < r.quantity_out =>
                        /\ balance(ledger', e) < 0
                        /\ is_low_stock(ledger', e)
                        /\ AlertsFor(alerts', e.medicine_name, "low_stock") # {} ]_vars

\* A manual dispense of 10 was accepted on a batch that had received 5: its
\* balance is -5, and the medicine has a low-stock alert.
C28_Witness ==
    /\ response.op = "add_inventory"
    /\ response.result = "dispensed"
    /\ req[1].quantity_out = 10
    /\ Balance(ledger, req[1].medicine_name, req[1].batch_no) = -5
    /\ \E e \in ledger : e.batch_no = req[1].batch_no /\ e.quantity_in = 5
    /\ AlertsFor(alerts, req[1].medicine_name, "low_stock") # {}

\* C29 (SpecSweep): in every state reached by acknowledgments on the alert
\* page, the bulk action of the admin, scans, clean-ups and manual entries,
\* an alert is acknowledged if and only if its acknowledged_at is set, and an
\* acknowledged alert whose acknowledged_at is 30 days old or more is among
\* those the clean-up deletes.
C29_AcknowledgedHasTimestamp ==
    \A a \in alerts :
        /\ a.is_acknowledged <=> a.acknowledged_at # NULL
        /\ (a.is_acknowledged /\ now - a.acknowledged_at >= 30) => a \in OldAlerts(alerts, now)

\* On day 31 the table holds an alert acknowledged on day 0 by the bulk
\* action or the alert page, which the clean-up is to delete, next to one
\* that is not acknowledged and has no timestamp.
C29_Witness ==
    /\ now = 31
    /\ \E a \in alerts : /\ a.is_acknowledged
                         /\ a.acknowledged_at = 0
                         /\ a \in OldAlerts(alerts, now)
    /\ \E a \in alerts : ~a.is_acknowledged /\ a.acknowledged_at = NULL

\* C30 (SpecExpired): a quick dispense with a valid form whose key has only
\* entries that expired (expiry date on or before the current date) and a
\* balance that covers the quantity succeeds, and the ledger entry it adds
\* carries an expiry date on or before the date it is created.
C30_QuickDispenseOfExpiredStock ==
    [][ response'.op = "quick_dispense" =>
          LET r == req'[1]
              entries == FilterKey(ledger, r.medicine_name, r.batch_no)
          IN (/\ r.quantity_out >= 1
              /\ r.dispensed_to # ""
              /\ entries # {}
              /\ \A e \in entries : e.expiry_date <= now
              /\ Balance(ledger, r.medicine_name, r.batch_no) >= r.quantity_out)
             => /\ response'.result = "dispensed"
                /\ Cardinality(ledger' \ ledger) = 1
                /\ \A e \in ledger' \ ledger :
                     /\ e.quantity_out = r.quantity_out
                     /\ e.expiry_date <= now
                     /\ is_expired(e, now) ]_vars

\* On day 2 a quick dispense of 5 succeeded on a batch that expired on day 1:
\* its entry carries the expiry date of day 1.
C30_Witness ==
    /\ now = 2
    /\ response.op = "quick_dispense"
    /\ response.result = "dispensed"
    /\ \E e \in ledger : /\ e.quantity_out = 5
                         /\ e.expiry_date = 1
                         /\ e.id = nextId.inventory - 1
    /\ \A e \in ledger : e.expiry_date = 1

====
